---- MODULE Spec2Model ----
(***************************************************************************)
(* dsbootstrap: the DS-bootstrapping scanner of dsbootstrap/scanner.py and *)
(* the event sink of dsbootstrap/stats.py.                                 *)
(*                                                                         *)
(* One execution of do_scan(obj) is modelled, in bootstrap mode (the six   *)
(* steps) and in NSEC-walk mode (walk_ancestor).  Every DNS query is a     *)
(* step whose outcome the environment chooses.                             *)
(*                                                                         *)
(* Representation.                                                         *)
(*   - A domain name is the sequence of its labels, leftmost first, the    *)
(*     root being << >>.  An input token is the sequence of the pieces     *)
(*     between its dots, so the token ".test" is << "", "test" >>.         *)
(*   - A resolver answer is [ok, rds, sigs]: rds is the rdata set of the   *)
(*     answer's rrset (rds = {} stands for rrset = None, an empty answer), *)
(*     sigs the RRSIGs of the response that cover the queried type.        *)
(*     None (ok = FALSE) is the absent result of query_dns.                *)
(*   - A Python dict is the sequence of its [k, v] items in insertion      *)
(*     order.                                                              *)
(***************************************************************************)
EXTENDS Integers, Sequences, FiniteSets, TLC

\* Longest list of authoritative nameserver hostnames given to a scan.
MaxAuths == 2

\* The hostnames of authoritative nameservers (single-label absolute names).
Hosts == {"ns1", "ns2"}

AuthLists == UNION {[1..n -> Hosts] : n \in 1..MaxAuths}

\* The input tokens: a child to bootstrap (given in mixed case) and an
\* ancestor to walk (leading dot).
ChildTokens == {<<"Example", "test">>}

WalkTokens == {<<"", "test">>}

Objs == [domain : ChildTokens \cup WalkTokens, auths : AuthLists]

-----------------------------------------------------------------------------
(* Names *)

\* str.lower() on one label.
LowerLabel(l) == IF l = "Example" THEN "example" ELSE IF l = "TEST" THEN "test" ELSE l

\* str.lower() on a token.
Lower(token) == [i \in 1..Len(token) |-> LowerLabel(token[i])]

\* dns.name.from_text on a token with no leading dot: the absolute name.
from_text(token) == token

\* dns.name.Name.parent()
parent(name) == Tail(name)

\* signaling_hash: base32hex(sha256(wire(name))), lowercased, as one label.
\* The wire format keeps the letter case of the name, so names that differ in
\* case hash differently.
signaling_hash(name) ==
    CASE name = <<"test">> -> "h(test)"
      [] name = <<"TEST">> -> "h(TEST)"
      [] name = <<"b", "test">> -> "h(b.test)"
      [] name = << >> -> "h()"
      [] OTHER -> "h(?)"

-----------------------------------------------------------------------------
(* Rdata *)

\* DNSKEY rdata of the child zone.  pk stands for the public key bytes.
K1 == [flags |-> 257, protocol |-> 3, algorithm |-> 13, pk |-> 1]

K2 == [flags |-> 257, protocol |-> 3, algorithm |-> 13, pk |-> 2]

\* dns.dnssec.key_id: the RFC 4034 appendix B checksum over the rdata, 16 bit.
key_id(dnskey) == (dnskey.flags * 256 + dnskey.protocol + dnskey.algorithm + dnskey.pk) % 65536

\* The digest types make_ds can compute (SHA-1, SHA-256, SHA-384).
SupportedDigestTypes == {1, 2, 4}

\* dns.dnssec.make_ds: the DS of a DNSKEY at a digest type.  The digest is
\* an injective image of (owner, key, digest type).
make_ds(name, dnskey, digest_type) ==
    [key_tag |-> key_id(dnskey), algorithm |-> dnskey.algorithm,
     digest_type |-> digest_type,
     digest |-> (Len(name) * 1000 + dnskey.pk * 10 + digest_type)]

ChildName == <<"example", "test">>

D1 == make_ds(ChildName, K1, 2)

D2 == make_ds(ChildName, K2, 2)

\* Rdata.to_text(): the presentation form of a DS/CDS rdata or of a
\* DNSKEY/CDNSKEY rdata, as the tuple of its fields.
to_text(rd) ==
    IF "key_tag" \in DOMAIN rd
    THEN <<rd.key_tag, rd.algorithm, rd.digest_type, rd.digest>>
    ELSE <<rd.flags, rd.protocol, rd.algorithm, rd.pk>>

\* dns.rdata.from_text(IN, DS, text)
ds_from_text(text) ==
    [key_tag |-> text[1], algorithm |-> text[2], digest_type |-> text[3], digest |-> text[4]]

\* An RRSIG over the DNSKEY rrset made with the private key of `dnskey`.
rrsig_by(dnskey) == [algorithm |-> dnskey.algorithm, key_tag |-> key_id(dnskey), by |-> dnskey.pk]

-----------------------------------------------------------------------------
(* Answers *)

Answer(rds, sigs) == [ok |-> TRUE, rds |-> rds, sigs |-> sigs]

\* The absent result of query_dns (Python None).
None == [ok |-> FALSE, rds |-> {}, sigs |-> {}]

\* What a DS query for the child can be answered with.
DSAnswers == {Answer({}, {}), Answer({D1}, {})}

\* What a CDS query (apex or signaling name) can be answered with.
CDSAnswers == {Answer({}, {}), Answer({D1}, {}), Answer({D1, D2}, {})}

\* What a CDNSKEY query can be answered with.
CDNSKEYAnswers == {Answer({}, {}), Answer({K1}, {})}

\* What a DNSKEY query at the child apex can be answered with: no DNSKEY,
\* K1 self-signed, K1 without RRSIG, K1 with a signature no key of the rrset
\* made, K2 self-signed.
DNSKEYAnswers ==
    {Answer({}, {}), Answer({K1}, {rrsig_by(K1)}), Answer({K1}, {}),
     Answer({K1}, {rrsig_by(K2)}), Answer({K2}, {rrsig_by(K2)})}

\* The nameservers argument left out (None): recursive mode.
NoneNS == {<<"None", "None">>}

\* How dns.resolver.Resolver.resolve can fail within one query_dns call: the
\* first attempt and, after NoNameservers, the retry with CD set.
Lame == [first |-> "NoNameservers", retry |-> "DNSException", ans |-> None]

Failures ==
    {Lame, [first |-> "NoNameservers", retry |-> "answer", ans |-> None],
     [first |-> "Timeout", retry |-> "-", ans |-> None],
     [first |-> "DNSException", retry |-> "-", ans |-> None]}

\* What resolve does for one query_dns call: it answers, or it fails in one
\* of the given ways.  A resolver with an empty nameserver list raises
\* NoNameservers on every attempt.
ResolverRunsOf(answers, nameservers, failures) ==
    IF nameservers = {}
    THEN {Lame}
    ELSE {[first |-> "answer", retry |-> "-", ans |-> a] : a \in answers} \cup failures

ResolverRuns(answers, nameservers) == ResolverRunsOf(answers, nameservers, Failures)

\* The failures considered for the queries of the NSEC walk.
WalkFailures == {Lame}

WalkRuns(answers, nameservers) == ResolverRunsOf(answers, nameservers, WalkFailures)

E(domain, event) == [domain |-> domain, event |-> event]

\* query_dns with the handler for Timeout around the retry as well.
query_dns_timeout_first(qname, run) ==
    CASE run.first = "answer" -> [ret |-> run.ans, ev |-> << >>, cd |-> <<FALSE>>]
      [] run.first = "NoNameservers" ->
           [ret |-> None,
            ev |-> <<E(qname, IF run.retry = "answer" THEN "DNS_BOGUS"
                              ELSE IF run.retry = "Timeout" THEN "DNS_TIMEOUT"
                              ELSE "DNS_LAME")>>,
            cd |-> <<FALSE, TRUE>>]
      [] run.first = "Timeout" ->
           [ret |-> None, ev |-> <<E(qname, "DNS_TIMEOUT")>>, cd |-> <<FALSE>>]
      [] OTHER -> [ret |-> None, ev |-> << >>, cd |-> <<FALSE>>]

\* query_dns: the answer or None, the events it records, and the CD flag of
\* each resolve call it made (the retry after NoNameservers sets CD).
query_dns(qname, run) ==
    CASE run.first = "answer" -> [ret |-> run.ans, ev |-> << >>, cd |-> <<FALSE>>]
      [] run.first = "NoNameservers" ->
           [ret |-> None,
            ev |-> <<E(qname, IF run.retry = "answer" THEN "DNS_BOGUS" ELSE "DNS_LAME")>>,
            cd |-> <<FALSE, TRUE>>]
      [] run.first = "Timeout" ->
           [ret |-> None, ev |-> <<E(qname, "DNS_TIMEOUT")>>, cd |-> <<FALSE>>]
      [] OTHER -> [ret |-> None, ev |-> << >>, cd |-> <<FALSE>>]

\* A query as seen on the wire.
Q(qname, rdtype, nameservers) == [qname |-> qname, rdtype |-> rdtype, nameservers |-> nameservers]

-----------------------------------------------------------------------------
(* Dicts and all_equal *)

Keys(d) == {d[i].k : i \in 1..Len(d)}

Values(d) == [i \in 1..Len(d) |-> d[i].v]

Get(d, key) == d[CHOOSE i \in 1..Len(d) : d[i].k = key].v

Item(key, value) == [k |-> key, v |-> value]

\* d[key] = value
Put(d, key, value) ==
    IF key \in Keys(d)
    THEN [i \in 1..Len(d) |-> IF d[i].k = key THEN Item(key, value) ELSE d[i]]
    ELSE Append(d, Item(key, value))

\* all_equal comparing the first two elements only.
all_equal_first_pair(iterable) == Len(iterable) < 2 \/ iterable[1] = iterable[2]

\* all_equal: groupby yields at most one group, i.e. no two neighbours differ.
all_equal(iterable) == \A i \in 1..(Len(iterable) - 1) : iterable[i] = iterable[i + 1]

-----------------------------------------------------------------------------
(* State *)

VARIABLES
    obj,               \* the argument of do_scan: [domain token, auths list]
    pc,                \* where the scan stands
    domain,            \* do_scan's domain (the child), or walk_ancestor's ancestor
    global_auths_map,  \* the process-wide hostname -> set of addresses cache
    upd,               \* update_auths_map's loop: [hosts, i, rd, ret]
    auths_map,         \* do_scan's view of the cache, restricted to its auths
    ds_ans,            \* Step 1: what query_dns(domain, 'DS') returned
    rds,               \* Step 2: the answers fetch_rrset_with_consistency collected
    signaling_fqdns,   \* Step 3: the signaling names, in their iteration order
    sig_i,             \* Step 3: index of the next signaling name to query
    cds_map,           \* the CDS comparison map (key None first)
    cdnskey_map,       \* the CDNSKEY comparison map (key None first)
    ds,                \* Step 5: the candidate DS rrset
    dnskeyset,         \* Step 6: auth -> DNSKEY response
    prefix_map,        \* walk_ancestor: auth -> set of prefixes its walk found
    walk_i,            \* walk_ancestor: index of the auth being walked
    next_prefix,       \* walk_ancestor: the prefix the next NSEC query is for
    todo,              \* walk_ancestor: the candidates check_auths has not seen yet
    cand,              \* check_auths: [domain, parent, ns] of the running call
    lines,             \* walk_ancestor: the output lines so far
    verdicts,          \* what check_auths returned, per candidate it judged
    rq,                \* stats._rq: the (domain, event) records put by this scan
    queries,           \* every query sent so far, resolver or direct
    result             \* how do_scan ended: [kind, ds, lines, exc]

\* The state outside of one scan: the event report, the threads of a run,
\* and the calls of the functions examined on their own.
VARIABLES
    RECORDS,           \* stats._RECORDS: event -> list of domains
    producers,         \* per scan thread: the records it has still to put
    reporter,          \* the reporting thread: [pc, item] within _process_queue
    scans,             \* per scan thread: its position in update_auths_map
    lookups,           \* every address lookup made, in order
    unresolvable,      \* the hostnames whose address lookups raise in this run
    nsec_count,        \* walk_ancestor: NSEC queries sent for the auth being walked
    call,              \* the function call examined: its name and arguments
    returned           \* what that call returned and recorded

xvars == <<RECORDS, producers, reporter, scans, lookups, unresolvable, nsec_count,
           call, returned>>

svars == <<obj, pc, domain, global_auths_map, upd, auths_map, ds_ans, rds,
           signaling_fqdns, sig_i, cds_map, cdnskey_map, ds, dnskeyset,
           prefix_map, walk_i, next_prefix, todo, cand, lines, verdicts, rq, queries,
           result>>

\* The locals of the bootstrap steps and those of the NSEC walk.
scan_locals == <<auths_map, ds_ans, rds, signaling_fqdns, sig_i, cds_map,
                 cdnskey_map, ds, dnskeyset>>

walk_locals == <<prefix_map, walk_i, next_prefix, todo, cand, lines, verdicts>>

\* The key None of the comparison maps (the child apex).
NoneKey == << >>

NoDS == [name |-> << >>, rds |-> {}]

Pending == [kind |-> "pending", ds |-> NoDS, lines |-> << >>, exc |-> "-"]

\* return (None)
ReturnNone == [kind |-> "None", ds |-> NoDS, lines |-> << >>, exc |-> "-"]

\* return ds
ReturnDS(rrset) == [kind |-> "ds", ds |-> rrset, lines |-> << >>, exc |-> "-"]

\* an exception leaves do_scan
Raise(exc) == [kind |-> "raise", ds |-> NoDS, lines |-> << >>, exc |-> exc]

\* stats.record
record(queue, name, event) == Append(queue, E(name, event))

Range(seq) == {seq[i] : i \in 1..Len(seq)}

RECURSIVE Flatten(_)
Flatten(seqs) == IF seqs = << >> THEN << >> ELSE Head(seqs) \o Flatten(Tail(seqs))

\* The orders a Python set can be iterated in.
Orders(S) == {o \in [1..Cardinality(S) -> S] : Range(o) = S}

\* The address a hostname has for an address type.
Addr(auth, rdtype) == <<auth, rdtype>>

\* Caches left behind by earlier scans of the process.
InitialCaches ==
    {<< >>, <<Item("ns2", {Addr("ns2", "A")})>>, <<Item("ns1", {})>>}

-----------------------------------------------------------------------------
(* update_auths_map *)

\* The next position of the loop `for auth in auths: if auth not in
\* global_auths_map` at or after i: the first hostname that is no key yet.
NextAuth(map, hosts, i) ==
    IF \E j \in i..Len(hosts) : hosts[j] \notin Keys(map)
    THEN CHOOSE j \in i..Len(hosts) :
            /\ hosts[j] \notin Keys(map)
            /\ \A l \in i..(j - 1) : hosts[l] \in Keys(map)
    ELSE Len(hosts) + 1

\* Entering update_auths_map(hosts), to continue at `ret` afterwards.
EnterUpdate(map, hosts, ret) ==
    LET j == NextAuth(map, hosts, 1) IN
    IF j > Len(hosts)
    THEN [pc |-> ret, upd |-> [hosts |-> hosts, i |-> j, rd |-> "AAAA", ret |-> ret]]
    ELSE [pc |-> "update_auths_map",
          upd |-> [hosts |-> hosts, i |-> j, rd |-> "AAAA", ret |-> ret]]

\* global_auths_map[auth] |= addresses (a defaultdict: a missing key starts
\* as the empty set).
AddAddresses(map, auth, addresses) ==
    Put(map, auth, (IF auth \in Keys(map) THEN Get(map, auth) ELSE {}) \cup addresses)

\* One dns.resolver.resolve(auth, rdtype, raise_on_no_answer=False) of
\* update_auths_map and the loop control after it.  The lookup may raise
\* (NXDOMAIN, Timeout, NoNameservers); nothing catches that.
update_auths_map ==
    /\ pc = "update_auths_map"
    /\ LET auth == upd.hosts[upd.i] IN
       /\ queries' = queries \cup {Q(<<auth>>, upd.rd, NoneNS)}
       /\ \E outcome \in {"raise", "empty", "addresses"} :
            IF outcome = "raise"
            THEN /\ result' = Raise("DNSException")
                 /\ pc' = "done"
                 /\ UNCHANGED <<global_auths_map, upd>>
            ELSE LET map == AddAddresses(global_auths_map, auth,
                                IF outcome = "empty" THEN {} ELSE {Addr(auth, upd.rd)})
                     j == NextAuth(map, upd.hosts, upd.i + 1)
                 IN
                 /\ global_auths_map' = map
                 /\ result' = result
                 /\ IF upd.rd = "AAAA"
                    THEN /\ upd' = [upd EXCEPT !.rd = "A"]
                         /\ pc' = pc
                    ELSE /\ upd' = [upd EXCEPT !.i = j, !.rd = "AAAA"]
                         /\ pc' = IF j > Len(upd.hosts) THEN upd.ret ELSE pc
    /\ UNCHANGED <<obj, domain, scan_locals, walk_locals, rq>>

-----------------------------------------------------------------------------
(* do_scan, bootstrap mode *)

\* {auth: set() for auth in auths}
RECURSIVE EmptySets(_, _)
EmptySets(auths, d) ==
    IF auths = << >> THEN d ELSE EmptySets(Tail(auths), Put(d, Head(auths), {}))

\* do_scan's entry: a leading dot selects the NSEC walk of the rest of the
\* token (not lowercased), anything else is a child to bootstrap, lowercased.
\* walk_ancestor starts with an empty prefix set per auth.
Enter ==
    /\ pc = "enter"
    /\ IF obj.domain[1] = ""
       THEN /\ domain' = from_text(Tail(obj.domain))
            /\ prefix_map' = EmptySets(obj.auths, << >>)
            /\ pc' = "walk"
       ELSE /\ domain' = from_text(Lower(obj.domain))
            /\ prefix_map' = prefix_map
            /\ pc' = "step1"
    /\ UNCHANGED <<obj, global_auths_map, upd, scan_locals, walk_i, next_prefix,
                   todo, cand, lines, verdicts, rq, queries, result>>

\* Step 1 without the return after HAVE_DS.
Step1_no_return ==
    /\ pc = "step1"
    /\ \E run \in ResolverRuns(DSAnswers, NoneNS) :
         LET q == query_dns(domain, run)
             next == EnterUpdate(global_auths_map, obj.auths, "step2_cds")
         IN
         /\ queries' = queries \cup {Q(domain, "DS", NoneNS)}
         /\ ds_ans' = q.ret
         /\ IF q.ret = None
            THEN /\ rq' = record(rq \o q.ev, domain, "DNS_FAILURE")
                 /\ result' = ReturnNone
                 /\ pc' = "done"
                 /\ upd' = upd
            ELSE /\ rq' = IF q.ret.rds # {} THEN record(rq \o q.ev, domain, "HAVE_DS")
                                           ELSE rq \o q.ev
                 /\ result' = result
                 /\ pc' = next.pc
                 /\ upd' = next.upd
    /\ UNCHANGED <<walk_locals, obj, domain, global_auths_map, auths_map, rds,
                   signaling_fqdns, sig_i, cds_map, cdnskey_map, ds, dnskeyset>>

\* Step 1: DS at the child through the recursive resolver.
Step1 ==
    /\ pc = "step1"
    /\ \E run \in ResolverRuns(DSAnswers, NoneNS) :
         LET q == query_dns(domain, run)
             next == EnterUpdate(global_auths_map, obj.auths, "step2_cds")
         IN
         /\ queries' = queries \cup {Q(domain, "DS", NoneNS)}
         /\ ds_ans' = q.ret
         /\ IF q.ret = None
            THEN /\ rq' = record(rq \o q.ev, domain, "DNS_FAILURE")
                 /\ result' = ReturnNone
                 /\ pc' = "done"
                 /\ upd' = upd
            ELSE IF q.ret.rds # {}
            THEN /\ rq' = record(rq \o q.ev, domain, "HAVE_DS")
                 /\ result' = ReturnNone
                 /\ pc' = "done"
                 /\ upd' = upd
            ELSE /\ rq' = rq \o q.ev
                 /\ result' = result
                 /\ pc' = next.pc
                 /\ upd' = next.upd
    /\ UNCHANGED <<walk_locals, obj, domain, global_auths_map, auths_map, rds, signaling_fqdns,
                   sig_i, cds_map, cdnskey_map, ds, dnskeyset>>

\* auths_map = {k: v for k, v in global_auths_map.items() if k in auths}
RestrictToAuths(map, auths) == SelectSeq(map, LAMBDA item : item.k \in Range(auths))

\* The resolver runs of one direct query per entry of an auths map.
DirectRuns(answers, map) ==
    {runs \in [1..Len(map) -> ResolverRuns(answers, NoneNS) \cup ResolverRuns(answers, {})] :
        \A i \in 1..Len(map) : runs[i] \in ResolverRuns(answers, map[i].v)}

\* fetch_rrset_with_consistency without the comparison of the rrsets.
fetch_without_comparison(answers) ==
    IF \E i \in 1..Len(answers) : answers[i] = None
    THEN [kind |-> "raise", val |-> {}]
    ELSE [kind |-> "set", val |-> {to_text(rd) : rd \in answers[1].rds}]

\* fetch_rrset_with_consistency, given what its queries returned:
\* AttributeError on an absent result, None on unequal rrsets, else the set
\* of the first answer's rdata in text form.
fetch_rrset_with_consistency(answers) ==
    IF \E i \in 1..Len(answers) : answers[i] = None
    THEN [kind |-> "raise", val |-> {}]
    ELSE IF ~all_equal([i \in 1..Len(answers) |-> answers[i].rds])
    THEN [kind |-> "None", val |-> {}]
    ELSE [kind |-> "set", val |-> {to_text(rd) : rd \in answers[1].rds}]

\* The signaling names of the child under its auths (a set).
SignalingFqdns(child, auths) ==
    {<<child[1], signaling_hash(parent(child))>> \o <<"_boot">> \o from_text(<<auth>>) :
        auth \in Range(auths)}

\* Step 2, CDS: the auths' addresses as cached now, then CDS at the apex
\* from every auth.
Step2CDS ==
    /\ pc = "step2_cds"
    /\ LET map == RestrictToAuths(global_auths_map, obj.auths) IN
       /\ auths_map' = map
       /\ \E runs \in DirectRuns(CDSAnswers, map) :
            LET qs == [i \in 1..Len(map) |-> query_dns(domain, runs[i])]
                answers == [i \in 1..Len(map) |-> qs[i].ret]
                res == fetch_rrset_with_consistency(answers)
                evs == Flatten([i \in 1..Len(map) |-> qs[i].ev])
            IN
            /\ queries' = queries \cup {Q(domain, "CDS", map[i].v) : i \in 1..Len(map)}
            /\ rds' = [rds EXCEPT !.cds = answers]
            /\ IF res.kind = "raise"
               THEN /\ rq' = rq \o evs
                    /\ result' = Raise("AttributeError")
                    /\ pc' = "done"
                    /\ cds_map' = cds_map
               ELSE IF res.kind = "None"
               THEN /\ rq' = record(rq \o evs, domain, "CHILD_CDS_INCONSISTENT")
                    /\ result' = ReturnNone
                    /\ pc' = "done"
                    /\ cds_map' = cds_map
               ELSE /\ rq' = rq \o evs
                    /\ result' = result
                    /\ pc' = "step2_cdnskey"
                    /\ cds_map' = <<Item(NoneKey, res.val)>>
    /\ UNCHANGED <<walk_locals, obj, domain, global_auths_map, upd, ds_ans, signaling_fqdns,
                   sig_i, cdnskey_map, ds, dnskeyset>>

\* Step 2, CDNSKEY, and the signaling names of Step 3.
Step2CDNSKEY ==
    /\ pc = "step2_cdnskey"
    /\ \E runs \in DirectRuns(CDNSKEYAnswers, auths_map) :
         LET qs == [i \in 1..Len(auths_map) |-> query_dns(domain, runs[i])]
             answers == [i \in 1..Len(auths_map) |-> qs[i].ret]
             res == fetch_rrset_with_consistency(answers)
             evs == Flatten([i \in 1..Len(auths_map) |-> qs[i].ev])
         IN
         /\ queries' = queries \cup
                {Q(domain, "CDNSKEY", auths_map[i].v) : i \in 1..Len(auths_map)}
         /\ rds' = [rds EXCEPT !.cdnskey = answers]
         /\ IF res.kind = "raise"
            THEN /\ rq' = rq \o evs
                 /\ result' = Raise("AttributeError")
                 /\ pc' = "done"
                 /\ UNCHANGED <<cdnskey_map, signaling_fqdns, sig_i>>
            ELSE IF res.kind = "None"
            THEN /\ rq' = record(rq \o evs, domain, "CHILD_CDNSKEY_INCONSISTENT")
                 /\ result' = ReturnNone
                 /\ pc' = "done"
                 /\ UNCHANGED <<cdnskey_map, signaling_fqdns, sig_i>>
            ELSE /\ rq' = rq \o evs
                 /\ result' = result
                 /\ pc' = "step3_cds"
                 /\ cdnskey_map' = <<Item(NoneKey, res.val)>>
                 /\ signaling_fqdns' \in Orders(SignalingFqdns(domain, obj.auths))
                 /\ sig_i' = 1
    /\ UNCHANGED <<walk_locals, obj, domain, global_auths_map, upd, auths_map, ds_ans, cds_map,
                   ds, dnskeyset>>

\* query_dns_and_extract_rdata returning None after it recorded DNS_FAILURE.
extract_rdata_returning_none(qname, res) ==
    IF res = None
    THEN [kind |-> "None", val |-> {}, ev |-> <<E(qname, "DNS_FAILURE")>>]
    ELSE IF res.rds = {}
    THEN [kind |-> "None", val |-> {}, ev |-> << >>]
    ELSE [kind |-> "set", val |-> {to_text(rd) : rd \in res.rds}, ev |-> << >>]

\* query_dns_and_extract_rdata, given what query_dns returned: an absent
\* result records DNS_FAILURE for the queried name and then fails iterating
\* None (TypeError); an empty answer gives None; else the rdata in text form.
query_dns_and_extract_rdata(qname, res) ==
    IF res = None
    THEN [kind |-> "raise", val |-> {}, ev |-> <<E(qname, "DNS_FAILURE")>>]
    ELSE IF res.rds = {}
    THEN [kind |-> "None", val |-> {}, ev |-> << >>]
    ELSE [kind |-> "set", val |-> {to_text(rd) : rd \in res.rds}, ev |-> << >>]

\* Step 3, first loop: CDS at the next signaling name, through the resolver.
Step3CDS ==
    /\ pc = "step3_cds"
    /\ LET signaling_fqdn == signaling_fqdns[sig_i] IN
       \E run \in ResolverRuns(CDSAnswers, NoneNS) :
         LET q == query_dns(signaling_fqdn, run)
             res == query_dns_and_extract_rdata(signaling_fqdn, q.ret)
             last == sig_i = Len(signaling_fqdns)
         IN
         /\ queries' = queries \cup {Q(signaling_fqdn, "CDS", NoneNS)}
         /\ IF res.kind = "raise"
            THEN /\ rq' = rq \o q.ev \o res.ev
                 /\ result' = Raise("TypeError")
                 /\ pc' = "done"
                 /\ UNCHANGED <<cds_map, sig_i>>
            ELSE /\ rq' = IF res.kind = "None"
                          THEN record(rq \o q.ev \o res.ev, domain, "NO_CDS")
                          ELSE rq \o q.ev \o res.ev
                 /\ cds_map' = IF res.kind = "None"
                               THEN cds_map
                               ELSE Put(cds_map, signaling_fqdn, res.val)
                 /\ result' = result
                 /\ sig_i' = IF last THEN 1 ELSE sig_i + 1
                 /\ pc' = IF last THEN "step3_cdnskey" ELSE pc
    /\ UNCHANGED <<walk_locals, obj, domain, global_auths_map, upd, auths_map, ds_ans, rds,
                   signaling_fqdns, cdnskey_map, ds, dnskeyset>>

\* Step 3, second loop: CDNSKEY at the next signaling name.
Step3CDNSKEY ==
    /\ pc = "step3_cdnskey"
    /\ LET signaling_fqdn == signaling_fqdns[sig_i] IN
       \E run \in ResolverRuns(CDNSKEYAnswers, NoneNS) :
         LET q == query_dns(signaling_fqdn, run)
             res == query_dns_and_extract_rdata(signaling_fqdn, q.ret)
             last == sig_i = Len(signaling_fqdns)
         IN
         /\ queries' = queries \cup {Q(signaling_fqdn, "CDNSKEY", NoneNS)}
         /\ IF res.kind = "raise"
            THEN /\ rq' = rq \o q.ev \o res.ev
                 /\ result' = Raise("TypeError")
                 /\ pc' = "done"
                 /\ UNCHANGED <<cdnskey_map, sig_i>>
            ELSE /\ rq' = IF res.kind = "None"
                          THEN record(rq \o q.ev \o res.ev, domain, "NO_CDNSKEY")
                          ELSE rq \o q.ev \o res.ev
                 /\ cdnskey_map' = IF res.kind = "None"
                                   THEN cdnskey_map
                                   ELSE Put(cdnskey_map, signaling_fqdn, res.val)
                 /\ result' = result
                 /\ sig_i' = IF last THEN 1 ELSE sig_i + 1
                 /\ pc' = IF last THEN "step4" ELSE pc
    /\ UNCHANGED <<walk_locals, obj, domain, global_auths_map, upd, auths_map, ds_ans, rds,
                   signaling_fqdns, cds_map, ds, dnskeyset>>

\* Step 5 keeping one CDS rdata only.
BuildDS_one(name, cds) ==
    [name |-> name,
     rds |-> IF cds = {} THEN {} ELSE {ds_from_text(CHOOSE rdata \in cds : TRUE)}]

\* Step 5: the DS rrset at the child built from the CDS rdata texts.
BuildDS(name, cds) == [name |-> name, rds |-> {ds_from_text(rdata) : rdata \in cds}]

\* Steps 4 and 5: agreement of the comparison maps, the no-op case, and the
\* candidate DS rrset.
Step4 ==
    /\ pc = "step4"
    /\ LET cds == Values(cds_map)[1]
           cdnskey == Values(cdnskey_map)[1]
       IN
       IF ~all_equal(Values(cds_map))
       THEN /\ rq' = record(rq, domain, "BOOT_CDS_INCONSISTENT")
            /\ result' = ReturnNone
            /\ pc' = "done"
            /\ ds' = ds
       ELSE IF ~all_equal(Values(cdnskey_map))
       THEN /\ rq' = record(rq, domain, "BOOT_CDNSKEY_INCONSISTENT")
            /\ result' = ReturnNone
            /\ pc' = "done"
            /\ ds' = ds
       ELSE IF cds = {} /\ cdnskey = {}
       THEN /\ rq' = record(rq, domain, "BOOT_NOOP")
            /\ result' = ReturnNone
            /\ pc' = "done"
            /\ ds' = ds
       ELSE /\ rq' = rq
            /\ result' = result
            /\ pc' = "step6"
            /\ ds' = BuildDS(domain, cds)
    /\ UNCHANGED <<walk_locals, obj, domain, global_auths_map, upd, auths_map, ds_ans, rds,
                   signaling_fqdns, sig_i, cds_map, cdnskey_map, dnskeyset, queries>>

-----------------------------------------------------------------------------
(* Continuity *)

\* filter_dnskey_set keeping every DNSKEY of the response.
filter_any_key(dnskeys, dsset) == dnskeys.rds

\* filter_dnskey_set: the DNSKEYs of the response that some DS of dsset
\* matches by key tag and by recomputed digest.  make_ds raises
\* UnsupportedAlgorithm for a digest type it cannot compute; that DS is
\* skipped.
filter_dnskey_set(dnskeys, dsset) ==
    {dnskey \in dnskeys.rds :
        \E rd \in dsset :
            /\ rd.key_tag = key_id(dnskey)
            /\ rd.digest_type \in SupportedDigestTypes
            /\ rd = make_ds(dnskeys.name, dnskey, rd.digest_type)}

\* dns.dnssec.validate: some RRSIG of the set verifies under a key of
\* `keys` that has the RRSIG's algorithm and key tag.  FALSE stands for
\* ValidationFailure.
validate(rrsigset, keys) ==
    \E rrsig \in rrsigset : \E key \in keys :
        /\ key.algorithm = rrsig.algorithm
        /\ key_id(key) = rrsig.key_tag
        /\ key.pk = rrsig.by

\* check_continuity: "True", "False", or "KeyError" when get_rrsigset finds
\* no RRSIG rrset in the DNSKEY response.
check_continuity(cds, dnskeys) ==
    LET algs == {rd.algorithm : rd \in cds.rds}
        dssets == [alg \in algs |-> {rd \in cds.rds : rd.algorithm = alg}]
    IN
    IF algs = {} THEN "True"
    ELSE IF dnskeys.sigs = {} THEN "KeyError"
    ELSE IF \A alg \in algs : validate(dnskeys.sigs, filter_dnskey_set(dnskeys, dssets[alg]))
    THEN "True"
    ELSE "False"

\* The DNSKEY response as check_continuity reads it: the rrset's owner and
\* rdata, and the RRSIGs of the response.
Response(name, answer) == [name |-> name, rds |-> answer.rds, sigs |-> answer.sigs]

\* Step 6: DNSKEY at the apex from every auth, their agreement, and the
\* continuity check of the candidate DS.
Step6 ==
    /\ pc = "step6"
    /\ \E runs \in DirectRuns(DNSKEYAnswers, auths_map) :
         LET qs == [i \in 1..Len(auths_map) |-> query_dns(domain, runs[i])]
             answers == [i \in 1..Len(auths_map) |-> qs[i].ret]
             evs == Flatten([i \in 1..Len(auths_map) |-> qs[i].ev])
         IN
         /\ queries' = queries \cup
                {Q(domain, "DNSKEY", auths_map[i].v) : i \in 1..Len(auths_map)}
         /\ dnskeyset' = [i \in 1..Len(auths_map) |-> Item(auths_map[i].k, answers[i])]
         /\ IF \E i \in 1..Len(answers) : answers[i] = None
            THEN /\ rq' = rq \o evs
                 /\ result' = Raise("AttributeError")
            ELSE IF ~all_equal([i \in 1..Len(answers) |-> answers[i].rds])
            THEN /\ rq' = record(rq \o evs, domain, "CHILD_DNSKEY_INCONSISTENT")
                 /\ result' = ReturnNone
            ELSE LET ok == check_continuity(ds, Response(domain, answers[1])) IN
                 IF ok = "KeyError"
                 THEN /\ rq' = rq \o evs
                      /\ result' = Raise("KeyError")
                 ELSE IF ok = "False"
                 THEN /\ rq' = record(rq \o evs, domain, "CONTINUITY_ERR")
                      /\ result' = ReturnNone
                 ELSE /\ rq' = rq \o evs
                      /\ result' = ReturnDS(ds)
         /\ pc' = "done"
    /\ UNCHANGED <<walk_locals, obj, domain, global_auths_map, upd, auths_map, ds_ans, rds,
                   signaling_fqdns, sig_i, cds_map, cdnskey_map, ds>>

-----------------------------------------------------------------------------
(* walk_ancestor *)

\* The relative names the NSEC chains under an entrypoint can hold.
Prefixes == {<<"a">>, <<"b">>}

\* The parent zone's nameserver host.
ParentHost == "pns"

\* dns.name.Name.is_subdomain
is_subdomain(name, other) ==
    /\ Len(name) >= Len(other)
    /\ SubSeq(name, Len(name) - Len(other) + 1, Len(name)) = other

\* name - other (relativize)
relativize(name, other) == SubSeq(name, 1, Len(name) - Len(other))

\* The entrypoint of an auth's NSEC chain for an ancestor.
Entrypoint(ancestor, auth) == <<signaling_hash(ancestor), "_boot">> \o from_text(<<auth>>)

\* An NSEC rdata with its owner.
NSEC(owner, next) == [owner |-> owner, next |-> next]

\* What an NSEC query for qname under an entrypoint can be answered with: no
\* NSEC rrset at all, one NSEC whose next name is a name of the chain, the
\* entrypoint itself or a name outside of it, or two NSEC rrsets.
NSECAnswers(qname, entrypoint) ==
    {Answer({}, {})}
    \cup {Answer({NSEC(qname, p \o entrypoint)}, {}) : p \in Prefixes \cup {<< >>}}
    \cup {Answer({NSEC(qname, <<"test">>)}, {})}
    \cup {Answer({NSEC(qname, <<"a">> \o entrypoint), NSEC(entrypoint, qname)}, {})}

\* next_nsec_prefix, given what query_dns returned: DNS_FAILURE and None on
\* an absent result, ValueError unless the response holds exactly one NSEC
\* rrset, else the next name relative to the entrypoint, or None when it lies
\* outside.
next_nsec_prefix(prefix, ancestor, res) ==
    LET qname == prefix \o ancestor
        owners == {rd.owner : rd \in res.rds}
        next_name == (CHOOSE rd \in res.rds : TRUE).next
    IN
    IF res = None
    THEN [kind |-> "None", val |-> << >>, ev |-> <<E(qname, "DNS_FAILURE")>>]
    ELSE IF Cardinality(owners) # 1
    THEN [kind |-> "raise", val |-> << >>, ev |-> << >>]
    ELSE IF is_subdomain(next_name, ancestor)
    THEN [kind |-> "name", val |-> relativize(next_name, ancestor), ev |-> << >>]
    ELSE [kind |-> "None", val |-> << >>, ev |-> << >>]

\* The union of the prefix sets in place of their intersection.
UnionOfWalks(d) == UNION {d[i].v : i \in 1..Len(d)}

\* set.intersection(*prefix_map.values())
Intersection(d) == {p \in d[1].v : \A i \in 1..Len(d) : p \in d[i].v}

\* The candidates of a finished walk.
Candidates(d, ancestor) == {prefix \o ancestor : prefix \in Intersection(d)}

\* The list walk_ancestor returns once no candidate is left to check.
ReturnLines(out) == [kind |-> "lines", ds |-> NoDS, lines |-> out, exc |-> "-"]

NoCand == [domain |-> << >>, parent |-> << >>, ns |-> << >>]

\* One next_nsec_prefix call of the walk of auths[walk_i] and the loop
\* control after it: the walk of an auth ends on None or on the empty
\* prefix; after the last auth the candidates are the intersection.
NextNsec ==
    /\ pc = "walk"
    /\ LET auth == obj.auths[walk_i]
           entrypoint == Entrypoint(domain, auth)
           qname == next_prefix \o entrypoint
       IN
       \E run \in WalkRuns(NSECAnswers(qname, entrypoint), NoneNS) :
         LET q == query_dns(qname, run)
             r == next_nsec_prefix(next_prefix, entrypoint, q.ret)
             candidates == Candidates(prefix_map, domain)
         IN
         /\ queries' = queries \cup {Q(qname, "NSEC", NoneNS)}
         /\ rq' = rq \o q.ev \o r.ev
         /\ IF r.kind = "raise"
            THEN /\ result' = Raise("ValueError")
                 /\ pc' = "done"
                 /\ UNCHANGED <<prefix_map, walk_i, next_prefix, todo>>
            ELSE IF r.kind = "name" /\ r.val # << >>
            THEN /\ prefix_map' = Put(prefix_map, auth, Get(prefix_map, auth) \cup {r.val})
                 /\ next_prefix' = r.val
                 /\ UNCHANGED <<result, pc, walk_i, todo>>
            ELSE IF walk_i < Len(obj.auths)
            THEN /\ walk_i' = walk_i + 1
                 /\ next_prefix' = << >>
                 /\ UNCHANGED <<result, pc, prefix_map, todo>>
            ELSE /\ todo' = candidates
                 /\ pc' = IF candidates = {} THEN "done" ELSE "check_auths"
                 /\ result' = IF candidates = {} THEN ReturnLines(lines) ELSE result
                 /\ UNCHANGED <<prefix_map, walk_i, next_prefix>>
    /\ UNCHANGED <<obj, domain, global_auths_map, upd, scan_locals, cand, lines,
                   verdicts>>

\* What the NS query at the parent zone can be answered with.
ParentNSAnswers == {Answer({}, {}), Answer({[target |-> ParentHost]}, {})}

\* What the NS query for the candidate sent to the parent's nameservers can
\* hold in its authority section: nothing, or the delegation's NS rrset.
ChildNSAnswers ==
    {Answer({}, {})} \cup {Answer({[target |-> t] : t \in T}, {}) : T \in SUBSET Hosts \ {{}}}

\* A candidate has been judged: the line is kept when check_auths said True;
\* after the last candidate walk_ancestor returns.
Judged(candidate, verdict) ==
    LET out == IF verdict THEN Append(lines, <<candidate>> \o obj.auths) ELSE lines IN
    /\ lines' = out
    /\ verdicts' = verdicts \cup {[domain |-> candidate, verdict |-> verdict]}
    /\ todo' = todo \ {candidate}
    /\ cand' = NoCand
    /\ pc' = IF todo \ {candidate} = {} THEN "done" ELSE "check_auths"
    /\ result' = IF todo \ {candidate} = {} THEN ReturnLines(out) ELSE result

\* check_auths, first half, for the next candidate of the set: the real
\* parent zone (zone_for_name finds the tentative parent, or raises), NS at
\* the parent through the
\* resolver, and the start of update_auths_map(ns).
CheckAuthsParent ==
    /\ pc = "check_auths"
    /\ \E candidate \in todo : \E zone \in {parent(candidate), <<"raise">>} :
         \E run \in WalkRuns(ParentNSAnswers, NoneNS) :
           LET q == query_dns(zone, run)
               ns == <<ParentHost>>
               next == EnterUpdate(global_auths_map, ns, "check_auths_child")
           IN
           IF zone = <<"raise">>
           THEN /\ result' = Raise("DNSException")
                /\ pc' = "done"
                /\ UNCHANGED <<todo, cand, lines, verdicts, rq, queries, upd>>
           ELSE /\ queries' = queries \cup {Q(zone, "NS", NoneNS)}
                /\ IF q.ret = None
                   THEN /\ rq' = record(rq \o q.ev, zone, "DNS_FAILURE")
                        /\ Judged(candidate, FALSE)
                        /\ upd' = upd
                   ELSE IF q.ret.rds = {}
                   THEN /\ rq' = rq
                        /\ result' = Raise("TypeError")
                        /\ pc' = "done"
                        /\ UNCHANGED <<todo, cand, lines, verdicts, upd>>
                   ELSE /\ rq' = rq
                        /\ cand' = [domain |-> candidate, parent |-> zone, ns |-> ns]
                        /\ pc' = next.pc
                        /\ upd' = next.upd
                        /\ UNCHANGED <<todo, lines, verdicts, result>>
    /\ UNCHANGED <<obj, domain, global_auths_map, scan_locals, prefix_map, walk_i,
                   next_prefix>>

\* sorted(auths) == sorted(targets), the targets of one rrset being distinct.
SortedEqual(auths, targets) == Len(auths) = Cardinality(targets) /\ Range(auths) = targets

\* check_auths, second half: NS for the candidate from the parent's
\* nameservers, the one NS rrset of the authority section (ValueError if
\* there is none), and its comparison with the auths.
CheckAuthsChild ==
    /\ pc = "check_auths_child"
    /\ LET nameservers == UNION {Get(global_auths_map, cand.ns[i]) : i \in 1..Len(cand.ns)} IN
       \E run \in WalkRuns(ChildNSAnswers, nameservers) :
         LET q == query_dns(cand.domain, run) IN
         /\ queries' = queries \cup {Q(cand.domain, "NS", nameservers)}
         /\ IF q.ret = None
            THEN /\ rq' = record(rq \o q.ev, cand.parent, "DNS_FAILURE")
                 /\ Judged(cand.domain, FALSE)
            ELSE IF q.ret.rds = {}
            THEN /\ rq' = rq
                 /\ result' = Raise("ValueError")
                 /\ pc' = "done"
                 /\ UNCHANGED <<todo, cand, lines, verdicts>>
            ELSE /\ rq' = rq
                 /\ Judged(cand.domain, SortedEqual(obj.auths, {rd.target : rd \in q.ret.rds}))
    /\ UNCHANGED <<obj, domain, global_auths_map, upd, scan_locals, prefix_map,
                   walk_i, next_prefix>>

-----------------------------------------------------------------------------
(* Specification *)

\* No thread, report or examined call besides the scan.
NoRun ==
    /\ RECORDS = << >>
    /\ producers = << >>
    /\ reporter = [pc |-> "idle", item |-> E(<< >>, "-")]
    /\ scans = << >>
    /\ lookups = << >>
    /\ unresolvable = {}
    /\ nsec_count = 0
    /\ call = [fn |-> "-"]
    /\ returned = [fn |-> "-"]

vars == <<svars, xvars>>

Init ==
    /\ obj \in Objs
    /\ pc = "enter"
    /\ domain = << >>
    /\ global_auths_map \in (IF obj.domain \in WalkTokens THEN {<< >>} ELSE InitialCaches)
    /\ upd = [hosts |-> << >>, i |-> 1, rd |-> "AAAA", ret |-> "-"]
    /\ auths_map = << >>
    /\ ds_ans = None
    /\ rds = [cds |-> << >>, cdnskey |-> << >>]
    /\ signaling_fqdns = << >>
    /\ sig_i = 1
    /\ cds_map = << >>
    /\ cdnskey_map = << >>
    /\ ds = NoDS
    /\ dnskeyset = << >>
    /\ prefix_map = << >>
    /\ walk_i = 1
    /\ next_prefix = << >>
    /\ todo = {}
    /\ cand = NoCand
    /\ lines = << >>
    /\ verdicts = {}
    /\ rq = << >>
    /\ queries = {}
    /\ result = Pending
    /\ NoRun

\* One scan on its own: nothing else of the process moves.
Next ==
    \/ Enter /\ UNCHANGED xvars
    \/ Step1 /\ UNCHANGED xvars
    \/ update_auths_map /\ UNCHANGED xvars
    \/ Step2CDS /\ UNCHANGED xvars
    \/ Step2CDNSKEY /\ UNCHANGED xvars
    \/ Step3CDS /\ UNCHANGED xvars
    \/ Step3CDNSKEY /\ UNCHANGED xvars
    \/ Step4 /\ UNCHANGED xvars
    \/ Step6 /\ UNCHANGED xvars
    \/ NextNsec /\ UNCHANGED xvars
    \/ CheckAuthsParent /\ UNCHANGED xvars
    \/ CheckAuthsChild /\ UNCHANGED xvars

Spec == Init /\ [][Next]_vars

-----------------------------------------------------------------------------
(* stats: the event queue and its report *)

\* No scan of the kind Spec follows is under way.
NoScan ==
    /\ obj = [domain |-> << >>, auths |-> << >>]
    /\ pc = "idle"
    /\ domain = << >>
    /\ upd = [hosts |-> << >>, i |-> 1, rd |-> "AAAA", ret |-> "-"]
    /\ auths_map = << >>
    /\ ds_ans = None
    /\ rds = [cds |-> << >>, cdnskey |-> << >>]
    /\ signaling_fqdns = << >>
    /\ sig_i = 1
    /\ cds_map = << >>
    /\ cdnskey_map = << >>
    /\ ds = NoDS
    /\ dnskeyset = << >>
    /\ prefix_map = << >>
    /\ walk_i = 1
    /\ next_prefix = << >>
    /\ todo = {}
    /\ cand = NoCand
    /\ lines = << >>
    /\ verdicts = {}
    /\ queries = {}
    /\ result = Pending

\* The most record() calls one scan thread makes.
MaxRecords == 2

\* The worker threads running scans, and the child each of them scans.
Workers == {"w1", "w2"}

WorkerDomain(w) == <<w, "test">>

\* The events the scans record here: one informational, one terminal.
WorkerEvents == {"NO_CDS", "BOOT_NOOP"}

\* The sequences of events a scan thread may record.
EventLists == UNION {[1..n -> WorkerEvents] : n \in 0..MaxRecords}

\* _RECORDS[event].append(domain) overwriting the list.
append_overwriting(records, event, name) == Put(records, event, <<name>>)

\* _RECORDS[event].append(domain) on the defaultdict(list).
append(records, event, name) ==
    Put(records, event,
        (IF event \in Keys(records) THEN Get(records, event) ELSE << >>) \o <<name>>)

\* A scan thread calls record(domain, event): _rq.put.
Record(w) ==
    /\ producers[w].todo # << >>
    /\ rq' = record(rq, WorkerDomain(w), Head(producers[w].todo))
    /\ producers' = [producers EXCEPT ![w] =
                        [todo |-> Tail(@.todo), done |-> Append(@.done, Head(@.todo))]]
    /\ UNCHANGED <<RECORDS, reporter>>

\* report_counts() or report_domains() is called: _process_queue starts.
Report ==
    /\ reporter.pc = "idle"
    /\ reporter' = [reporter EXCEPT !.pc = "empty"]
    /\ UNCHANGED <<rq, RECORDS, producers>>

\* `while not _rq.empty()`: the loop test; the report is built and returned
\* when the queue is found empty.
ProcessQueueTest ==
    /\ reporter.pc = "empty"
    /\ reporter' = [reporter EXCEPT !.pc = IF rq = << >> THEN "idle" ELSE "get"]
    /\ UNCHANGED <<rq, RECORDS, producers>>

\* `domain, event = _rq.get_nowait()`
ProcessQueueGet ==
    /\ reporter.pc = "get"
    /\ rq # << >>
    /\ reporter' = [pc |-> "append", item |-> Head(rq)]
    /\ rq' = Tail(rq)
    /\ UNCHANGED <<RECORDS, producers>>

\* `_RECORDS[event].append(domain)`
ProcessQueueAppend ==
    /\ reporter.pc = "append"
    /\ RECORDS' = append(RECORDS, reporter.item.event, reporter.item.domain)
    /\ reporter' = [reporter EXCEPT !.pc = "empty"]
    /\ UNCHANGED <<rq, producers>>

StatsInit ==
    /\ NoScan
    /\ global_auths_map = << >>
    /\ rq = << >>
    /\ RECORDS = << >>
    /\ producers \in [Workers -> {[todo |-> l, done |-> << >>] : l \in EventLists}]
    /\ reporter = [pc |-> "idle", item |-> E(<< >>, "-")]
    /\ scans = << >>
    /\ lookups = << >>
    /\ unresolvable = {}
    /\ nsec_count = 0
    /\ call = [fn |-> "-"]
    /\ returned = [fn |-> "-"]

\* Other than the four stats variables nothing moves.
StatsFrame ==
    UNCHANGED <<obj, pc, domain, global_auths_map, upd, auths_map, ds_ans, rds,
                signaling_fqdns, sig_i, cds_map, cdnskey_map, ds, dnskeyset,
                prefix_map, walk_i, next_prefix, todo, cand, lines, verdicts,
                queries, result, scans, lookups, unresolvable, nsec_count, call,
                returned>>

StatsNext ==
    \/ (\E w \in Workers : Record(w)) /\ StatsFrame
    \/ Report /\ StatsFrame
    \/ ProcessQueueTest /\ StatsFrame
    \/ ProcessQueueGet /\ StatsFrame
    \/ ProcessQueueAppend /\ StatsFrame

SpecStats == StatsInit /\ [][StatsNext]_vars

-----------------------------------------------------------------------------
(* The authoritative IP cache under several update_auths_map calls *)

\* The most update_auths_map calls one thread makes one after the other.
MaxCalls == 2

\* The auths lists the calls are made with.
CallLists == {<<"ns1">>, <<"ns1", "ns2">>, <<"ns3", "ns2">>}

\* The addresses a lookup of a resolvable hostname returns: ns2 has no AAAA
\* record.
HostAddresses(auth, rdtype) ==
    IF auth = "ns2" /\ rdtype = "AAAA" THEN {} ELSE {Addr(auth, rdtype)}

\* The complete address set of a hostname.
AllAddresses(auth) == HostAddresses(auth, "AAAA") \cup HostAddresses(auth, "A")

\* A thread between two scans.
IdleThread(calls) ==
    [calls |-> calls, made |-> << >>, hosts |-> << >>, i |-> 1, rd |-> "AAAA",
     pc |-> "idle", seen |-> << >>]

\* A scan reaches update_auths_map(auths) (do_scan after Step 1, check_auths).
CallUpdate(w) ==
    /\ scans[w].pc = "idle"
    /\ scans[w].calls # << >>
    /\ scans' = [scans EXCEPT ![w] =
                    [calls |-> Tail(@.calls), made |-> Append(@.made, Head(@.calls)),
                     hosts |-> Head(@.calls), i |-> 1, rd |-> "AAAA", pc |-> "test",
                     seen |-> << >>]]
    /\ UNCHANGED <<global_auths_map, lookups>>

\* `for auth in auths: if auth not in global_auths_map`: the loop's end and
\* the membership test for the next hostname.
TestAuth(w) ==
    /\ scans[w].pc = "test"
    /\ LET t == scans[w] IN
       scans' = [scans EXCEPT ![w] =
                    IF t.i > Len(t.hosts) THEN [t EXCEPT !.pc = "read"]
                    ELSE IF t.hosts[t.i] \in Keys(global_auths_map)
                    THEN [t EXCEPT !.i = t.i + 1]
                    ELSE [t EXCEPT !.pc = "resolve", !.rd = "AAAA"]]
    /\ UNCHANGED <<global_auths_map, lookups>>

\* One `r = dns.resolver.resolve(auth, rdtype, ...)` with the update
\* `global_auths_map[auth] |= {a.address for a in r}` after it.  A lookup
\* that raises ends the scan of the thread; nothing catches it.
ResolveAuth(w) ==
    /\ scans[w].pc = "resolve"
    /\ LET t == scans[w]
           auth == t.hosts[t.i]
           lookup == [thread |-> w, n |-> Len(t.made), auth |-> auth, rdtype |-> t.rd,
                      raised |-> auth \in unresolvable]
       IN
       /\ lookups' = Append(lookups, lookup)
       /\ IF auth \in unresolvable
          THEN /\ scans' = [scans EXCEPT ![w] = [t EXCEPT !.pc = "idle"]]
               /\ UNCHANGED global_auths_map
          ELSE /\ global_auths_map' =
                      AddAddresses(global_auths_map, auth, HostAddresses(auth, t.rd))
               /\ scans' = [scans EXCEPT ![w] =
                               IF t.rd = "AAAA" THEN [t EXCEPT !.rd = "A"]
                               ELSE [t EXCEPT !.i = t.i + 1, !.pc = "test"]]

\* The scan takes its view of the cache and hands the address sets to its
\* direct queries.
ReadCache(w) ==
    /\ scans[w].pc = "read"
    /\ scans' = [scans EXCEPT ![w] =
                    [@ EXCEPT !.pc = "idle",
                              !.seen = RestrictToAuths(global_auths_map, scans[w].hosts)]]
    /\ UNCHANGED <<global_auths_map, lookups>>

\* One thread making up to MaxCalls calls, or two threads making one call
\* each at the same time, on an empty cache.
CacheInit ==
    /\ NoScan
    /\ rq = << >>
    /\ RECORDS = << >>
    /\ producers = << >>
    /\ reporter = [pc |-> "idle", item |-> E(<< >>, "-")]
    /\ global_auths_map = << >>
    /\ lookups = << >>
    /\ unresolvable \in {{}, {"ns3"}}
    /\ \/ \E calls \in UNION {[1..n -> CallLists] : n \in 1..MaxCalls} :
             scans = [w \in Workers |-> IdleThread(IF w = "w1" THEN calls ELSE << >>)]
       \/ scans \in [Workers -> {IdleThread(<<auths>>) : auths \in CallLists}]
    /\ nsec_count = 0
    /\ call = [fn |-> "-"]
    /\ returned = [fn |-> "-"]

\* Other than the cache, the threads and the lookups nothing moves.
CacheFrame ==
    UNCHANGED <<obj, pc, domain, upd, auths_map, ds_ans, rds, signaling_fqdns, sig_i,
                cds_map, cdnskey_map, ds, dnskeyset, prefix_map, walk_i, next_prefix,
                todo, cand, lines, verdicts, rq, queries, result, RECORDS, producers,
                reporter, unresolvable, nsec_count, call, returned>>

CacheNext ==
    \/ (\E w \in Workers : CallUpdate(w)) /\ CacheFrame
    \/ (\E w \in Workers : TestAuth(w)) /\ CacheFrame
    \/ (\E w \in Workers : ResolveAuth(w)) /\ CacheFrame
    \/ (\E w \in Workers : ReadCache(w)) /\ CacheFrame

SpecCache == CacheInit /\ [][CacheNext]_vars

-----------------------------------------------------------------------------
(* Single calls of query_dns, check_continuity and of the walk's naming *)

\* Every way one query_dns call can run: the first resolve answers or
\* raises, and the retry after NoNameservers answers or raises.
QueryRuns ==
    {[first |-> "answer", retry |-> "-", ans |-> a] : a \in CDSAnswers}
    \cup {[first |-> "NoNameservers", retry |-> r, ans |-> None] :
            r \in {"answer", "NoNameservers", "Timeout", "DNSException"}}
    \cup {[first |-> f, retry |-> "-", ans |-> None] : f \in {"Timeout", "DNSException"}}

\* The calls query_dns(qname, 'CDS') examined.
QueryCalls ==
    {[fn |-> "query_dns", qname |-> qname, run |-> run] :
        qname \in {ChildName, <<"example", "h(test)", "_boot", "ns1">>}, run \in QueryRuns}

\* DS rdata of a digest type make_ds cannot compute, for K1.
D3 == [key_tag |-> key_id(K1), algorithm |-> K1.algorithm, digest_type |-> 3, digest |-> 0]

\* A DNSKEY of another algorithm and the DS made from it.
K3 == [flags |-> 257, protocol |-> 3, algorithm |-> 8, pk |-> 3]

D4 == make_ds(ChildName, K3, 2)

\* The DNSKEY responses examined: no DNSKEY rrset, or a DNSKEY rrset with
\* or without RRSIGs.
DnskeyResponses ==
    {[name |-> ChildName, rds |-> {}, sigs |-> {}]}
    \cup {[name |-> ChildName, rds |-> keys, sigs |-> sigs] :
            keys \in {{K1}, {K1, K3}, {K2}},
            sigs \in {{}, {rrsig_by(K1)}, {rrsig_by(K1), rrsig_by(K3)}, {rrsig_by(K2)}}}

\* The calls check_continuity(cds, dnskeyset) examined.
ContinuityCalls ==
    {[fn |-> "check_continuity", cds |-> [name |-> ChildName, rds |-> dss],
      dnskeyset |-> response] :
        dss \in {{}, {D1}, {D1, D2}, {D3}, {D1, D4}}, response \in DnskeyResponses}

\* str(name): the text of a name, label by label with their case.
to_str(name) == name

\* The line walk_ancestor emits for a prefix found under the ancestor.
CandidateOf(prefix, ancestor) == to_str(prefix \o ancestor)

\* The walk under one auth finding one prefix, and do_scan given the line
\* made for it.
NamingCalls ==
    {[fn |-> "naming", ancestor |-> ancestor, prefix |-> prefix, auth |-> auth] :
        ancestor \in {<<"test">>, <<"TEST">>},
        prefix \in {<<"a">>, <<"b">>, <<"a", "b">>},
        auth \in Hosts}

\* query_dns(qname, rdtype) is called and returns.
CallQueryDns ==
    /\ call.fn = "query_dns"
    /\ returned.fn = "-"
    /\ LET q == query_dns(call.qname, call.run) IN
       returned' = [fn |-> call.fn, ret |-> q.ret, ev |-> q.ev, cd |-> q.cd]

\* check_continuity(cds, dnskeyset) is called and returns or raises.
CallCheckContinuity ==
    /\ call.fn = "check_continuity"
    /\ returned.fn = "-"
    /\ returned' = [fn |-> call.fn, val |-> check_continuity(call.cds, call.dnskeyset)]

\* walk_ancestor(ancestor, [auth]) queries prefix + entrypoint and emits the
\* candidate; do_scan, called with that line, derives its signaling name.
CallNaming ==
    /\ call.fn = "naming"
    /\ returned.fn = "-"
    /\ LET ancestor == from_text(call.ancestor)
           candidate == CandidateOf(call.prefix, ancestor)
           child == from_text(Lower(candidate))
       IN
       returned' = [fn |-> call.fn,
                    walked |-> call.prefix \o Entrypoint(ancestor, call.auth),
                    candidate |-> candidate,
                    scanned |-> SignalingFqdns(child, <<call.auth>>)]

FunctionsInit ==
    /\ NoScan
    /\ global_auths_map = << >>
    /\ rq = << >>
    /\ RECORDS = << >>
    /\ producers = << >>
    /\ reporter = [pc |-> "idle", item |-> E(<< >>, "-")]
    /\ scans = << >>
    /\ lookups = << >>
    /\ unresolvable = {}
    /\ nsec_count = 0
    /\ call \in QueryCalls \cup ContinuityCalls \cup NamingCalls
    /\ returned = [fn |-> "-"]

\* A call changes nothing but what it returns.
FunctionsFrame == UNCHANGED <<svars, RECORDS, producers, reporter, scans, lookups,
                              unresolvable, nsec_count, call>>

FunctionsNext ==
    \/ CallQueryDns /\ FunctionsFrame
    \/ CallCheckContinuity /\ FunctionsFrame
    \/ CallNaming /\ FunctionsFrame

SpecFunctions == FunctionsInit /\ [][FunctionsNext]_vars

-----------------------------------------------------------------------------
(* The NSEC walk with its queries counted *)

\* The most NSEC queries followed for one auth.
MaxNsecQueries == 4

\* What is not the scan's state and not the query counter.
WalkFrame == UNCHANGED <<RECORDS, producers, reporter, scans, lookups, unresolvable,
                         call, returned>>

\* One next_nsec_prefix call, counted: the count starts anew when the walk
\* moves on to the next auth.
CountedNextNsec ==
    /\ nsec_count < MaxNsecQueries
    /\ NextNsec
    /\ nsec_count' = IF walk_i' # walk_i THEN 0 ELSE nsec_count + 1

WalkInit == Init /\ obj.domain \in WalkTokens

WalkNext ==
    \/ Enter /\ UNCHANGED xvars
    \/ CountedNextNsec /\ WalkFrame
    \/ update_auths_map /\ UNCHANGED xvars
    \/ CheckAuthsParent /\ UNCHANGED xvars
    \/ CheckAuthsChild /\ UNCHANGED xvars

SpecWalk == WalkInit /\ [][WalkNext]_vars

-----------------------------------------------------------------------------
(* Properties *)

\* The scan runs in bootstrap mode.
Bootstrap == obj.domain \in ChildTokens

Done == pc = "done"

TerminalEvents ==
    {"HAVE_DS", "BOOT_NOOP", "DNS_FAILURE", "CHILD_CDS_INCONSISTENT",
     "CHILD_CDNSKEY_INCONSISTENT", "CHILD_DNSKEY_INCONSISTENT",
     "BOOT_CDS_INCONSISTENT", "BOOT_CDNSKEY_INCONSISTENT", "CONTINUITY_ERR"}

\* The number of terminal events the scan has recorded.
CountTerminal == Cardinality({i \in 1..Len(rq) : rq[i].event \in TerminalEvents})

Recorded(event) == \E i \in 1..Len(rq) : rq[i] = E(domain, event)

LastRecorded(event) == rq # << >> /\ rq[Len(rq)] = E(domain, event)

\* All answers of a list are present.
AllPresent(answers) == answers # << >> /\ \A i \in 1..Len(answers) : answers[i].ok

\* Some two answers of a list hold different rdata sets.
Unequal(answers) == \E i, j \in 1..Len(answers) : answers[i].rds # answers[j].rds

\* Some two values of a comparison map differ.
Differ(map) == \E i, j \in 1..Len(map) : map[i].v # map[j].v

\* The signaling names of the scanned child.
Fqdns == SignalingFqdns(domain, obj.auths)

\* The DNSKEY answers Step 6 collected.
DnskeyAnswers == Values(dnskeyset)

\* A DS rdata is realized by a DNSKEY of a set: same key tag, and the DS
\* recomputed from the key at the DS's digest type is the DS.
Realized(rd, dnskeys) ==
    \E dnskey \in dnskeys :
        key_id(dnskey) = rd.key_tag /\ make_ds(domain, dnskey, rd.digest_type) = rd

\* Step 4 has run.
PastStep4 ==
    /\ Bootstrap
    /\ \/ pc = "step6"
       \/ pc = "done" /\ cdnskey_map # << >> /\ result.exc # "TypeError"

\* C1: do_scan returns a DS set only if the apex, cross-view and DNSKEY
\* consistency checks, the signaling-presence check and the continuity check
\* have passed; in particular never when no signaling name yielded a CDS set.
C1_DSOnlyAfterAllChecks ==
    result.kind = "ds" =>
        /\ AllPresent(rds.cds) /\ ~Unequal(rds.cds)
        /\ AllPresent(rds.cdnskey) /\ ~Unequal(rds.cdnskey)
        /\ ~Differ(cds_map) /\ ~Differ(cdnskey_map)
        /\ AllPresent(DnskeyAnswers) /\ ~Unequal(DnskeyAnswers)
        /\ check_continuity(ds, Response(domain, DnskeyAnswers[1])) = "True"
        /\ \E fqdn \in Fqdns : fqdn \in Keys(cds_map)

\* C2: in bootstrap mode no exception escapes do_scan: the scan ends by
\* returning a DS set or None.
C2_NoExceptionEscapes == (Bootstrap /\ Done) => result.kind \in {"ds", "None"}

\* C3: one bootstrap scan records at most one terminal event.
C3_AtMostOneTerminalEvent == Bootstrap => CountTerminal <= 1

\* C3 witness: a finished scan with one terminal event after informational
\* ones (NO_CDS, NO_CDNSKEY).
C3_Witness ==
    /\ Bootstrap /\ Done /\ CountTerminal = 1
    /\ Recorded("NO_CDS") /\ Recorded("NO_CDNSKEY")

\* C4: a bootstrap scan that ends without a DS set has returned None and has
\* recorded exactly one terminal event.
C4_FailureRecordsOneTerminalEvent ==
    (Bootstrap /\ Done /\ result.kind # "ds") =>
        (result.kind = "None" /\ CountTerminal = 1)

\* C5: once Step 4 has run, entries of the CDS map that differ mean
\* BOOT_CDS_INCONSISTENT and None; an agreeing CDS map with CDNSKEY entries
\* that differ means BOOT_CDNSKEY_INCONSISTENT and None; however many
\* signaling entries were omitted, no DS set is returned in either case.
C5_AgreementOverPresentEntries ==
    PastStep4 =>
        /\ Differ(cds_map) =>
              result = ReturnNone /\ LastRecorded("BOOT_CDS_INCONSISTENT")
        /\ (~Differ(cds_map) /\ Differ(cdnskey_map)) =>
              result = ReturnNone /\ LastRecorded("BOOT_CDNSKEY_INCONSISTENT")
        /\ (Differ(cds_map) \/ Differ(cdnskey_map)) => (Done /\ result.kind # "ds")

\* C5 witness: two signaling names, one omitted from the CDS map, the other
\* present and different from the apex entry.
C5_Witness ==
    /\ PastStep4 /\ Done
    /\ Len(signaling_fqdns) = 2 /\ Len(cds_map) = 2 /\ Differ(cds_map)
    /\ result = ReturnNone

\* The child of C6: no DS yet, a non-empty CDS set C and a CDNSKEY set N that
\* every auth and every signaling name answers alike, and every auth
\* answering the same DNSKEY rrset, signed by a key of the rrset that a CDS
\* of each algorithm of C references.
HappyChild ==
    /\ Bootstrap /\ Done
    /\ ds_ans = Answer({}, {})
    /\ AllPresent(rds.cds) /\ ~Unequal(rds.cds) /\ rds.cds[1].rds # {}
    /\ AllPresent(rds.cdnskey) /\ ~Unequal(rds.cdnskey)
    /\ Len(rds.cds) = Cardinality(Range(obj.auths))
    /\ \A fqdn \in Fqdns :
          /\ fqdn \in Keys(cds_map)
          /\ Get(cds_map, fqdn) = {to_text(rd) : rd \in rds.cds[1].rds}
          /\ IF rds.cdnskey[1].rds = {}
             THEN fqdn \notin Keys(cdnskey_map)
             ELSE /\ fqdn \in Keys(cdnskey_map)
                  /\ Get(cdnskey_map, fqdn) = {to_text(rd) : rd \in rds.cdnskey[1].rds}
    /\ AllPresent(DnskeyAnswers) /\ ~Unequal(DnskeyAnswers)
    /\ Len(DnskeyAnswers) = Cardinality(Range(obj.auths))
    /\ \A i \in 1..Len(DnskeyAnswers) :
          \A alg \in {rd.algorithm : rd \in rds.cds[1].rds} :
             \E rd \in rds.cds[1].rds : \E dnskey \in DnskeyAnswers[i].rds :
                /\ rd.algorithm = alg
                /\ rd = make_ds(domain, dnskey, rd.digest_type)
                /\ rrsig_by(dnskey) \in DnskeyAnswers[i].sigs

\* C6: for that child do_scan returns a DS set owned by the child whose rdata
\* set is exactly the agreed CDS rdata set.
C6_HappyPathReturnsCDSAsDS ==
    HappyChild =>
        result = ReturnDS([name |-> from_text(Lower(obj.domain)), rds |-> rds.cds[1].rds])

\* C6 witness: such a child with two auths and two CDS rdata.
C6_Witness ==
    /\ HappyChild /\ result.kind = "ds"
    /\ Len(auths_map) = 2 /\ Cardinality(result.ds.rds) = 2

\* C7 as claimed: every DS rdata of a returned set is realized by a DNSKEY of
\* the child's DNSKEY rrset.
C7_EveryDSRealized ==
    result.kind = "ds" =>
        \A rd \in result.ds.rds : Realized(rd, DnskeyAnswers[1].rds)

\* C7 amended: for every algorithm of a returned DS set, some DS rdata of that
\* algorithm is realized by a DNSKEY of the child's DNSKEY rrset.
C7_SomeDSPerAlgorithmRealized ==
    result.kind = "ds" =>
        \A alg \in {rd.algorithm : rd \in result.ds.rds} :
            \E rd \in result.ds.rds :
                rd.algorithm = alg /\ Realized(rd, DnskeyAnswers[1].rds)

\* C7 witness: a returned DS set of two rdata of one algorithm, one of them
\* realized by no DNSKEY of the rrset.
C7_Witness ==
    /\ result.kind = "ds"
    /\ Cardinality(result.ds.rds) = 2
    /\ \E rd \in result.ds.rds : ~Realized(rd, DnskeyAnswers[1].rds)

\* Step 1 got a non-empty DS answer.
HaveDS == Bootstrap /\ ds_ans.ok /\ ds_ans.rds # {}

\* C8: after a non-empty DS answer at Step 1 the scan has recorded HAVE_DS and
\* returned None, the DS query is the only query sent, and neither the step
\* that got the answer nor any later one changes the cache or sends a query.
C8_HaveDSStopsScan ==
    /\ [](HaveDS => /\ Done
                    /\ result = ReturnNone
                    /\ rq = <<E(domain, "HAVE_DS")>>
                    /\ queries = {Q(domain, "DS", NoneNS)})
    /\ [][(HaveDS' => global_auths_map' = global_auths_map)
          /\ (HaveDS => queries' = queries)]_svars

\* C8 witness: HAVE_DS with a cache that earlier scans filled.
C8_Witness == HaveDS /\ Done /\ global_auths_map # << >>

\* No query went to a signaling name.
NoStep3Query == \A q \in queries : q.qname \notin Fqdns

\* C9: unequal CDS rrsets from the auths end the scan with
\* CHILD_CDS_INCONSISTENT and None, equal CDS rrsets and unequal CDNSKEY
\* rrsets with CHILD_CDNSKEY_INCONSISTENT and None, both before any query to a
\* signaling name.
C9_ApexInconsistencyStopsBeforeStep3 ==
    Bootstrap =>
        /\ (AllPresent(rds.cds) /\ Unequal(rds.cds)) =>
              /\ Done /\ result = ReturnNone
              /\ LastRecorded("CHILD_CDS_INCONSISTENT")
              /\ NoStep3Query
        /\ (AllPresent(rds.cds) /\ ~Unequal(rds.cds)
              /\ AllPresent(rds.cdnskey) /\ Unequal(rds.cdnskey)) =>
              /\ Done /\ result = ReturnNone
              /\ LastRecorded("CHILD_CDNSKEY_INCONSISTENT")
              /\ NoStep3Query

\* C9 witness: two auths that agree on CDS and disagree on CDNSKEY.
C9_Witness ==
    /\ Bootstrap /\ Done
    /\ Len(rds.cdnskey) = 2 /\ AllPresent(rds.cdnskey) /\ Unequal(rds.cdnskey)
    /\ rds.cds[1].rds # {}

\* C10: every line walk_ancestor has put out names prefix + ancestor, followed
\* by the auths, for a prefix that the walk of every auth found and for which
\* check_auths returned True.
C10_CandidatesInEveryWalk ==
    \A n \in 1..Len(lines) :
        \E prefix \in Prefixes :
            /\ lines[n] = <<prefix \o domain>> \o obj.auths
            /\ \A auth \in Range(obj.auths) : prefix \in Get(prefix_map, auth)
            /\ [domain |-> prefix \o domain, verdict |-> TRUE] \in verdicts

\* C10 witness: a returned line, and a prefix that one auth's walk found and
\* another's did not.
C10_Witness ==
    /\ Done /\ result.kind = "lines" /\ Len(result.lines) >= 1
    /\ \E p \in Prefixes : \E i, j \in 1..Len(prefix_map) :
          p \in prefix_map[i].v /\ p \notin prefix_map[j].v


-----------------------------------------------------------------------------
(* Properties of the event report *)

\* How often x occurs in a sequence.
Count(seq, x) == Cardinality({i \in 1..Len(seq) : seq[i] = x})

\* _RECORDS[event], the list of the event kind.
RecordsOf(event) == IF event \in Keys(RECORDS) THEN Get(RECORDS, event) ELSE << >>

\* All producers have finished and a report has drained the queue.
Drained ==
    /\ \A w \in Workers : producers[w].todo = << >>
    /\ rq = << >>
    /\ reporter.pc = "idle"

\* C11: once all producers have finished and a report has drained the queue,
\* every (domain, event) pair passed to record() is in the list of its event
\* kind as often as it was passed (once per call), whatever the interleaving
\* of record() calls and reports was.
C11_NoEventLostOrDuplicated ==
    Drained =>
        \A w \in Workers : \A event \in WorkerEvents :
            Count(RecordsOf(event), WorkerDomain(w)) = Count(producers[w].done, event)

\* C11 witness: a drained report in which the records of the two threads
\* interleave in one list.
C11_Witness ==
    /\ Drained
    /\ RecordsOf("NO_CDS") = <<WorkerDomain("w1"), WorkerDomain("w2"), WorkerDomain("w1")>>
    /\ RecordsOf("BOOT_NOOP") = <<WorkerDomain("w2")>>


-----------------------------------------------------------------------------
(* Properties of the authoritative IP cache *)

\* One thread makes all the calls, one after the other.
Sequential == scans["w2"].calls = << >> /\ scans["w2"].made = << >>

\* The thread has made all its calls.
Finished(w) == scans[w].pc = "idle" /\ scans[w].calls = << >>

\* The n-th call of a thread ended by an exception.
CallRaised(w, n) ==
    \E i \in 1..Len(lookups) :
        lookups[i].thread = w /\ lookups[i].n = n /\ lookups[i].raised

\* Every address a lookup has returned so far is in the cache, under its
\* hostname: no key and no address was removed.
NothingRemoved ==
    \A i \in 1..Len(lookups) :
        ~lookups[i].raised =>
            /\ lookups[i].auth \in Keys(global_auths_map)
            /\ HostAddresses(lookups[i].auth, lookups[i].rdtype)
                  \subseteq Get(global_auths_map, lookups[i].auth)

\* No hostname was looked up again after a lookup of the same type had
\* answered and made it a key.
NeverLookedUpAgain ==
    \A i, j \in 1..Len(lookups) :
        (i < j /\ lookups[i].auth = lookups[j].auth
               /\ lookups[i].rdtype = lookups[j].rdtype) => lookups[i].raised

\* C12: across a sequence of update_auths_map calls the cache is grow-only
\* and idempotent: nothing is removed, no key is looked up again, and after
\* update_auths_map(S) has returned and the later calls have ended, the keys
\* hold S and every resolvable hostname of the later calls.
C12_CacheGrowOnlyIdempotent ==
    Sequential =>
        /\ NothingRemoved
        /\ NeverLookedUpAgain
        /\ (Finished("w1") /\ scans["w1"].made # << >> /\ ~CallRaised("w1", 1)) =>
              /\ Range(scans["w1"].made[1]) \subseteq Keys(global_auths_map)
              /\ \A n \in 2..Len(scans["w1"].made) :
                    Range(scans["w1"].made[n]) \ unresolvable
                        \subseteq Keys(global_auths_map)

\* A thread's view of the cache holds the complete AAAA-and-A address set of
\* each of its hostnames.
SeesCompleteSets(w) ==
    \A i \in 1..Len(scans[w].seen) :
        scans[w].seen[i].v = AllAddresses(scans[w].seen[i].k)

\* C13: with scans on several threads, every scan that uses a cached
\* hostname sees its complete address set (it never reads an entry another
\* scan is still populating), and a hostname is resolved by at most one scan.
C13_CacheAccessSynchronized ==
    /\ \A w \in Workers : SeesCompleteSets(w)
    /\ \A i, j \in 1..Len(lookups) :
          lookups[i].auth = lookups[j].auth => lookups[i].thread = lookups[j].thread


-----------------------------------------------------------------------------
(* Properties of Step 3 *)

\* A query at a signaling name came back absent: query_dns_and_extract_rdata
\* took its `res is None` branch, which records DNS_FAILURE for that name.
AbsentAtStep3 ==
    \E i \in 1..Len(rq) : rq[i].event = "DNS_FAILURE" /\ rq[i].domain \in Fqdns

\* A CDS query at a signaling name was answered with an empty answer:
\* query_dns_and_extract_rdata returned None, for which Step 3 records NO_CDS.
EmptyCDSAtStep3 == Recorded("NO_CDS")

\* C14: an absent result of a Step 3 query is not fatal: the scan records
\* NO_CDS or NO_CDNSKEY for the child and goes on (no exception ends it).
C14_AbsentSignalingResultNotFatal ==
    (Bootstrap /\ AbsentAtStep3) =>
        /\ result.kind # "raise"
        /\ Recorded("NO_CDS") \/ Recorded("NO_CDNSKEY")

\* C15: an empty answer at a signaling name takes part in the Step 4
\* comparison as the empty set: with a non-empty apex CDS set the scan ends
\* with BOOT_CDS_INCONSISTENT.
C15_EmptyAnswerCompared ==
    (PastStep4 /\ Get(cds_map, NoneKey) # {} /\ EmptyCDSAtStep3) =>
        /\ Recorded("BOOT_CDS_INCONSISTENT")
        /\ result = ReturnNone


-----------------------------------------------------------------------------
(* Properties of single calls *)

QueryDnsReturned == call.fn = "query_dns" /\ returned.fn = "query_dns"

\* C16: query_dns returns the response and records nothing when the first
\* attempt succeeds; after NoNameservers it retries once, with CD set, and
\* records DNS_BOGUS if the retry succeeds and DNS_LAME if it raises (a
\* timeout included); after a timeout it records DNS_TIMEOUT without a retry;
\* after any other DNS exception it records nothing.  Every failure returns
\* absent.
C16_QueryDnsClassification ==
    QueryDnsReturned =>
        LET run == call.run
            one(event) == <<E(call.qname, event)>>
        IN
        /\ run.first = "answer" =>
              returned.ret = run.ans /\ returned.ev = << >> /\ returned.cd = <<FALSE>>
        /\ run.first # "answer" => returned.ret = None
        /\ run.first = "NoNameservers" =>
              /\ returned.cd = <<FALSE, TRUE>>
              /\ returned.ev = IF run.retry = "answer" THEN one("DNS_BOGUS")
                               ELSE one("DNS_LAME")
        /\ run.first = "Timeout" =>
              returned.ev = one("DNS_TIMEOUT") /\ returned.cd = <<FALSE>>
        /\ run.first = "DNSException" =>
              returned.ev = << >> /\ returned.cd = <<FALSE>>

\* C16 witness: NoNameservers, then the retry with CD set timing out.
C16_Witness ==
    /\ QueryDnsReturned
    /\ call.run.first = "NoNameservers" /\ call.run.retry = "Timeout"
    /\ returned.ev = <<E(call.qname, "DNS_LAME")>>

ContinuityReturned == call.fn = "check_continuity" /\ returned.fn = "check_continuity"

\* The DNSKEYs of the response that a DS of the algorithm matches by key tag
\* and recomputed digest.
TrustAnchors(alg) ==
    {key \in call.dnskeyset.rds :
        \E rd \in call.cds.rds :
            /\ rd.algorithm = alg
            /\ rd.key_tag = key_id(key)
            /\ rd.digest_type \in SupportedDigestTypes
            /\ make_ds(call.cds.name, key, rd.digest_type) = rd}

\* Some RRSIG of the response verifies under one of the keys.
Validates(keys) ==
    \E rrsig \in call.dnskeyset.sigs : \E key \in keys :
        rrsig.algorithm = key.algorithm /\ rrsig.key_tag = key_id(key) /\ rrsig.by = key.pk

\* C17: check_continuity returns true if and only if, for every algorithm of
\* the candidate DS set, the DNSKEY rrset validates with the DNSKEYs matching
\* a DS of that algorithm as the only trust anchors; otherwise it returns
\* false, it never raises.
C17_ContinuityIff ==
    ContinuityReturned =>
        /\ returned.val \in {"True", "False"}
        /\ returned.val = "True" <=>
              \A alg \in {rd.algorithm : rd \in call.cds.rds} : Validates(TrustAnchors(alg))

NamingReturned == call.fn = "naming" /\ returned.fn = "naming"

\* C20: the signaling name do_scan queries for a candidate line, under the
\* auth, is the name prefix + entrypoint at which the walk found it.
C20_WalkAndScanAgree ==
    NamingReturned => returned.scanned = {returned.walked}


-----------------------------------------------------------------------------
(* Properties of the NSEC walk *)

\* The walk of an auth is under way or over.
Walking == obj.domain \in WalkTokens /\ pc # "enter"

\* The distinct names found so far under the entrypoint of the auth being
\* walked.
NamesFound == Get(prefix_map, obj.auths[walk_i])

\* C18: the walk of an auth sends at most n + 1 NSEC queries, n being the
\* number of distinct names signaled under its entrypoint, whatever next
\* names the responses hold (so it terminates).
C18_WalkQueriesLinear == Walking => nsec_count <= Cardinality(NamesFound) + 1

\* C19: a DS set do_scan returns holds at least one DS rdata.
C19_ReturnedDSNonEmpty == (Bootstrap /\ result.kind = "ds") => result.ds.rds # {}

=============================================================================
